---- MODULE Spec2Model ----
(***************************************************************************)
(* Node and link classes of daemon/core/netns/nodes.py: PtpNet, HubNode,   *)
(* SwitchNode, CtrlNet, WlanNode and RJ45Node, each as a state machine     *)
(* over its in-memory fields and the host state its commands act on.       *)
(* Each class has its own specification (SpecPtp, SpecHub, ...): the       *)
(* variables of the other classes keep their idle values there.            *)
(***************************************************************************)
EXTENDS Integers, Sequences, FiniteSets, TLC

VARIABLES
    \* --- interfaces (PyCoreNetIf objects handed to PtpNet / WlanNode)
    if_params,      \* netif._params: parameter dict of each interface
    if_addrlist,    \* netif.addrlist of each interface
    if_node,        \* netif.node: None, or the position of the owning node
    if_poshook,     \* netif.poshook: None, or the model instance whose callback it is
    \* --- WlanNode
    w_netif,        \* self._netif: the registry, in dict order
    w_model,        \* self.model: None or a wireless model instance
    w_mobility,     \* self.mobility: None or a mobility model instance
    w_made,         \* number of model instances constructed so far
    \* --- PtpNet
    ptp_netif,      \* self._netif: the registry, in dict order
    \* --- HubNode / SwitchNode objects and their bridges on the host
    br_kind,        \* class of each network object ("none" before construction)
    br_up,          \* self.up of each network object
    br_host,        \* the host bridge of each object: None, or its ageing time
    \* --- CtrlNet
    ctl_cfg,        \* constructor arguments: objid, hostid, assign_address, ...
    ctl_up,         \* self.up
    host_bridges,   \* names of the bridges on the host, as dot-separated fields
    \* --- RJ45Node
    rj_up,          \* self.up
    rj_net,         \* self.net: None or the attached network
    rj_ifindex,     \* self.ifindex: None or an index
    rj_netif,       \* self._netif: index -> interface (always the node itself)
    rj_addrlist,    \* self.addrlist
    rj_old_up,      \* self.old_up (None until savestate has run)
    rj_old_addrs,   \* self.old_addrs (None until savestate has run)
    net_members,    \* the networks whose registry holds this node
    host_nic,       \* the host NIC: [up, addrs]
    rj_pre,         \* history: the host NIC as the last startup() found it
    rj_clean,       \* history: no host command has failed since that startup()
    \* --- threads calling into one RJ45Node
    pc,             \* where each thread is in the call it is making
    t_arg,          \* the arguments of that call
    lock,           \* self.lock: None or the thread that holds it
    \* --- outcome of the last call
    ret,            \* [op, exc, val]: operation, exception raised ("" if none), value
    calls           \* host commands and callbacks issued by the last call, in order

ifVars == <<if_params, if_addrlist, if_node, if_poshook>>
wlanVars == <<w_netif, w_model, w_mobility, w_made>>
ptpVars == <<ptp_netif>>
hubVars == <<br_kind, br_up, br_host>>
ctlVars == <<ctl_cfg, ctl_up, host_bridges>>
rjVars == <<rj_up, rj_net, rj_ifindex, rj_netif, rj_addrlist, rj_old_up,
           rj_old_addrs, net_members, host_nic, rj_pre, rj_clean>>
vars == <<if_params, if_addrlist, if_node, if_poshook, ptp_netif,
          br_kind, br_up, br_host, ctl_cfg, ctl_up, host_bridges,
          w_netif, w_model, w_mobility, w_made,
          rj_up, rj_net, rj_ifindex, rj_netif, rj_addrlist, rj_old_up,
          rj_old_addrs, net_members, host_nic, rj_pre, rj_clean,
          pc, t_arg, lock, ret, calls>>

\* What the calls on one class leave alone: the state of the other classes.
threadVars == <<pc, t_arg, lock>>
NotPtp == <<hubVars, ctlVars, wlanVars, rjVars, threadVars>>
NotHub == <<ifVars, ptpVars, ctlVars, wlanVars, rjVars, threadVars>>
NotCtl == <<ifVars, ptpVars, hubVars, wlanVars, rjVars, threadVars>>
NotWlan == <<if_params, if_addrlist, ptpVars, hubVars, ctlVars, rjVars, threadVars>>
NotRJ == <<ifVars, ptpVars, hubVars, ctlVars, wlanVars, threadVars>>
NotRJThreads == <<ifVars, ptpVars, hubVars, ctlVars, wlanVars>>

\* ------------------------------------------------------------------ bounds
NumNetifs == 3
NumBridges == 2
MaxModels == 2
NumWlanNetifs == 2
NumNets == 2
MaxAddrs == 2
NumThreads == 2

\* ----------------------------------------------------------- Python values
\* An optional value: None is the empty tuple, a present value x is <<x>>.
None == <<>>
Some(x) == <<x>>

NoExc == ""
Ret(op, exc, val) == [op |-> op, exc |-> exc, val |-> val]

\* ============================================================ interfaces
Netifs == 1..NumNetifs

\* netif.node.objid, netif.node.getifindex(netif), netif.hwaddr: every
\* interface i is owned by its own node (all_link_data dereferences
\* if1.node unconditionally).
objid(i) == 10 * i
getifindex(i) == i - 1
hwaddr(i) == <<"mac", i>>
\* netif.node.position.get() of the node that owns interface i
position(i) == <<i, 2 * i, 0>>

\* Parameter dicts an interface may carry.  "loss" is a link parameter like
\* the other four (all_link_data names it, and does not report it).
ParamChoices ==
    { [delay |-> 10, bw |-> 100, duplicate |-> 0, jitter |-> 0],
      [delay |-> 50, bw |-> 100, duplicate |-> 0, jitter |-> 0],
      [delay |-> 10, bw |-> 100, duplicate |-> 0, jitter |-> 0, loss |-> 5] }

\* netif.getparams(): the sorted (key, value) items of the dict; two sorted
\* item lists are equal exactly when the dicts are.
getparams(i) == if_params[i]
\* netif.getparam(key): dict.get, None for a key that is not set.
getparam(i, key) ==
    IF key \in DOMAIN if_params[i] THEN Some(if_params[i][key]) ELSE None

\* A CIDR address string "ip/mask", held as the text before the slash and the
\* decimal digits after it.
Addr(ip, digits) == [ip |-> ip, mask |-> digits]
V4Texts == {"10.0.0.1", "10.0.0.2"}
AddrListChoices ==
    { <<>>,
      << Addr("10.0.0.1", <<2, 4>>), Addr("2001::1", <<6, 4>>),
         Addr("10.0.0.2", <<1, 6>>) >> }

\* int(mask): decimal digits to a number.
RECURSIVE int(_)
int(digits) ==
    IF digits = <<>> THEN 0
    ELSE 10 * int(SubSeq(digits, 1, Len(digits) - 1)) + digits[Len(digits)]

\* ipaddress.is_ipv4_address(ip)
is_ipv4_address(ip) == ip \in V4Texts
\* ipaddress.IpAddress(af, socket.inet_pton(af, ip))
IpAddress(af, ip) == [af |-> af, address |-> <<"packed", ip>>]

\* =============================================================== PtpNet
\* LxBrNet.attach / detach: the base registry, which keeps attach order.
LxBrNet_attach(reg, i) == Append(reg, i)
LxBrNet_detach(reg, i) == SelectSeq(reg, LAMBDA j : j # i)

Range(s) == { s[k] : k \in DOMAIN s }

\* The loops of all_link_data over an address list: the last IPv4 address
\* and the last IPv6 address of the list win.
RECURSIVE ScanAddrs(_, _)
ScanAddrs(addrlist, acc) ==
    IF addrlist = <<>> THEN acc
    ELSE LET a == Head(addrlist)
             mask == int(a.mask)
         IN  ScanAddrs(Tail(addrlist),
                 IF is_ipv4_address(a.ip)
                 THEN [acc EXCEPT !.ip4 = Some(IpAddress("AF_INET", a.ip)),
                                  !.ip4_mask = Some(mask)]
                 ELSE [acc EXCEPT !.ip6 = Some(IpAddress("AF_INET6", a.ip)),
                                  !.ip6_mask = Some(mask)])
NoAddrs == [ip4 |-> None, ip4_mask |-> None, ip6 |-> None, ip6_mask |-> None]

\* LinkData(...): a field that is not passed is None.
LinkFields ==
    { "message_type", "node1_id", "node2_id", "link_type", "unidirectional",
      "delay", "bandwidth", "dup", "jitter",
      "interface1_id", "interface1_mac", "interface1_ip4", "interface1_ip4_mask",
      "interface1_ip6", "interface1_ip6_mask",
      "interface2_id", "interface2_mac", "interface2_ip4", "interface2_ip4_mask",
      "interface2_ip6", "interface2_ip6_mask" }
LinkData(given) ==
    [f \in LinkFields |-> IF f \in DOMAIN given THEN Some(given[f]) ELSE None]

\* PtpNet.linktype, inherited from the base network class.
ptp_linktype == "WIRED"

\* if1.getparams() != if2.getparams()
PtpUnidirectionalInverted(if1, if2) ==
    IF getparams(if1) = getparams(if2) THEN 1 ELSE 0
PtpUnidirectional(if1, if2) ==
    IF getparams(if1) # getparams(if2) THEN 1 ELSE 0

\* The parameters both records carry: if1's.
PtpParamSourceBug(if1, if2) == if2
PtpParamSource(if1, if2) == if1

\* PtpNet.all_link_data(flags), after the count check and the unpacking of
\* the two registry items: the records built for (if1, if2).
PtpLinkRecords(if1, if2, flags) ==
    LET unidirectional == PtpUnidirectional(if1, if2)
        a1 == ScanAddrs(if_addrlist[if1], NoAddrs)
        a2 == ScanAddrs(if_addrlist[if2], NoAddrs)
        src == PtpParamSource(if1, if2)
        \* getparam may return None: these fields hold what it returns
        quality == [delay |-> getparam(src, "delay"),
                    bandwidth |-> getparam(src, "bw"),
                    dup |-> getparam(src, "duplicate"),
                    jitter |-> getparam(src, "jitter")]
        forward ==
            [LinkData([message_type |-> flags,
                       node1_id |-> objid(if1),
                       node2_id |-> objid(if2),
                       link_type |-> ptp_linktype,
                       unidirectional |-> unidirectional,
                       interface1_id |-> getifindex(if1),
                       interface1_mac |-> hwaddr(if1),
                       interface2_id |-> getifindex(if2),
                       interface2_mac |-> hwaddr(if2)])
             EXCEPT !.delay = quality.delay,
                    !.bandwidth = quality.bandwidth,
                    !.dup = quality.dup,
                    !.jitter = quality.jitter,
                    !.interface1_ip4 = a1.ip4,
                    !.interface1_ip4_mask = a1.ip4_mask,
                    !.interface1_ip6 = a1.ip6,
                    !.interface1_ip6_mask = a1.ip6_mask,
                    !.interface2_ip4 = a2.ip4,
                    !.interface2_ip4_mask = a2.ip4_mask,
                    !.interface2_ip6 = a2.ip6,
                    !.interface2_ip6_mask = a2.ip6_mask]
        reverse ==
            [LinkData([message_type |-> 0,
                       node1_id |-> objid(if2),
                       node2_id |-> objid(if1),
                       unidirectional |-> 1,
                       interface1_id |-> getifindex(if2),
                       interface2_id |-> getifindex(if1)])
             EXCEPT !.delay = quality.delay,
                    !.bandwidth = quality.bandwidth,
                    !.dup = quality.dup,
                    !.jitter = quality.jitter]
    IN  IF unidirectional = 1 THEN <<forward, reverse>> ELSE <<forward>>

\* PtpNet.all_link_data(flags)
all_link_dataEmptyCheck(reg, flags) ==
    IF Len(reg) = 0 THEN <<>>
    ELSE PtpLinkRecords(reg[1], reg[Len(reg)], flags)
all_link_data(reg, flags) ==
    IF Len(reg) # 2 THEN <<>>
    ELSE PtpLinkRecords(reg[1], reg[2], flags)

\* PtpNet.attach(netif): the capacity check.
PtpFullBug(reg) == Len(reg) > 2
PtpFull(reg) == Len(reg) >= 2

PtpNet_attach(i) ==
    /\ i \notin Range(ptp_netif)
    /\ IF PtpFull(ptp_netif)
       THEN /\ ret' = Ret("attach", "ValueError", None)
            /\ UNCHANGED ptp_netif
       ELSE /\ ptp_netif' = LxBrNet_attach(ptp_netif, i)
            /\ ret' = Ret("attach", NoExc, None)
    /\ calls' = <<>>
    /\ UNCHANGED <<ifVars, NotPtp>>

PtpNet_detach(i) ==
    /\ i \in Range(ptp_netif)
    /\ ptp_netif' = LxBrNet_detach(ptp_netif, i)
    /\ ret' = Ret("detach", NoExc, None)
    /\ calls' = <<>>
    /\ UNCHANGED <<ifVars, NotPtp>>

MessageFlags == {0, 1}

PtpNet_all_link_data(flags) ==
    /\ ret' = Ret("all_link_data", NoExc, all_link_data(ptp_netif, flags))
    /\ calls' = <<>>
    /\ UNCHANGED <<ifVars, ptpVars, NotPtp>>

\* ==================================================== HubNode, SwitchNode
BridgeIds == 1..NumBridges

\* A host command of the last call and whether it succeeded.
Cmd(argv, ok) == [cmd |-> argv, ok |-> ok]

\* The ageing time of a bridge as brctl addbr leaves it, and as
\* "brctl setageing <bridge> 0" sets it.
DefaultAgeing == "default"
ZeroAgeing == "0"

\* LxBrNet.startup: creates the bridge of the network on the host (a bridge
\* already there is kept as it is) and marks the network up.
LxBrNet_startup_host(host) == IF host = None THEN Some(DefaultAgeing) ELSE host
\* LxBrNet.shutdown: nothing when the network is down; else removes the
\* bridge and marks the network down.
LxBrNet_shutdown_host(up, host) == IF up THEN None ELSE host

\* HubNode.__init__: "if start:" guards the setageing command.
HubSetsAgeing(start) == start

\* HubNode(session, objid, name, start): LxBrNet.__init__ runs startup when
\* start is set; then, when start is set, brctl setageing <brname> 0, whose
\* failure leaves the constructor by CalledProcessError.
HubNode_init(n, start, ok) ==
    /\ br_kind[n] = "none"
    /\ LET based == IF start THEN LxBrNet_startup_host(br_host[n]) ELSE br_host[n]
       IN  IF HubSetsAgeing(start)
           THEN /\ calls' = << Cmd(<<"brctl", "setageing", n, "0">>, ok) >>
                /\ IF ok
                   THEN /\ br_host' = [br_host EXCEPT ![n] = Some(ZeroAgeing)]
                        /\ br_kind' = [br_kind EXCEPT ![n] = "hub"]
                        /\ br_up' = [br_up EXCEPT ![n] = start]
                        /\ ret' = Ret("HubNode", NoExc, None)
                   ELSE /\ br_host' = [br_host EXCEPT ![n] = based]
                        /\ UNCHANGED <<br_kind, br_up>>
                        /\ ret' = Ret("HubNode", "CalledProcessError", None)
           ELSE /\ ok
                /\ calls' = <<>>
                /\ br_host' = [br_host EXCEPT ![n] = based]
                /\ br_kind' = [br_kind EXCEPT ![n] = "hub"]
                /\ br_up' = [br_up EXCEPT ![n] = start]
                /\ ret' = Ret("HubNode", NoExc, None)
    /\ UNCHANGED NotHub

\* SwitchNode(session, objid, name, start): LxBrNet.__init__ alone.
SwitchNode_init(n, start) ==
    /\ br_kind[n] = "none"
    /\ br_kind' = [br_kind EXCEPT ![n] = "switch"]
    /\ br_up' = [br_up EXCEPT ![n] = start]
    /\ br_host' = [br_host EXCEPT ![n] =
                      IF start THEN LxBrNet_startup_host(@) ELSE @]
    /\ ret' = Ret("SwitchNode", NoExc, None)
    /\ calls' = <<>>
    /\ UNCHANGED NotHub

\* startup() on a hub or a switch: neither class overrides LxBrNet.startup.
LxBrNet_startup(n) ==
    /\ br_kind[n] # "none"
    /\ br_host' = [br_host EXCEPT ![n] = LxBrNet_startup_host(@)]
    /\ br_up' = [br_up EXCEPT ![n] = TRUE]
    /\ UNCHANGED br_kind
    /\ ret' = Ret("startup", NoExc, None)
    /\ calls' = <<>>
    /\ UNCHANGED NotHub

\* shutdown() on a hub or a switch: LxBrNet.shutdown.
LxBrNet_shutdown(n) ==
    /\ br_kind[n] # "none"
    /\ br_host' = [br_host EXCEPT ![n] = LxBrNet_shutdown_host(br_up[n], @)]
    /\ br_up' = [br_up EXCEPT ![n] = FALSE]
    /\ UNCHANGED br_kind
    /\ ret' = Ret("shutdown", NoExc, None)
    /\ calls' = <<>>
    /\ UNCHANGED NotHub

\* ================================================================ CtrlNet
\* self.session.sessionid, which the base class puts in the bridge name.
SessionId == "s1"
\* LxBrNet.brname: "b.<objid>.<sessionid>", held as its dot-separated fields.
brname(cfg) == <<"b", cfg.objid, SessionId>>

\* Constructor arguments of a CtrlNet.
CtlObjIds == {"ctrlnet", "ctrl1net"}
CtlConfigs ==
    [ objid : CtlObjIds,
      hostid : {None, Some(1)},
      assign_address : BOOLEAN,
      updown_script : {None, Some("updown.sh")},
      serverintf : {None, Some("eth1")} ]

\* Bridges other sessions and other programs may have left on the host.
ForeignBridges ==
    { <<"b", "ctrlnet", "s0">>, <<"br", "ctrlnet", "s0">>,
      <<"b", "ctrl2net", "s0">>, <<"docker0">> }

\* The output of "brctl show" split into lines and each line into its
\* tab-separated columns, the first column into its dot-separated fields: a
\* header line, then per bridge a line <<name, id, stp, interfaces>> and a
\* continuation line whose first column is empty.  A failed command prints
\* no bridge line.
RECURSIVE BridgeLines(_)
BridgeLines(names) ==
    IF names = {} THEN <<>>
    ELSE LET n == CHOOSE x \in names : TRUE
         IN  << <<n, "8000.000000000000", "no", "veth0">>,
                << <<"">>, "", "", "veth1" >> >> \o BridgeLines(names \ {n})
brctl_show(names, ok) ==
    IF ok
    THEN << << <<"bridge name">>, "bridge id", "STP enabled", "interfaces" >> >>
         \o BridgeLines(names) \o << << <<"">> >> >>
    ELSE << << <<"">> >> >>

\* The test detectoldbridge applies to the fields of a bridge name.
IsOldBridgeWrongField(flds, id) ==
    Len(flds) = 3 /\ flds[1] = "b" /\ flds[3] = id
IsOldBridge(flds, id) ==
    Len(flds) = 3 /\ flds[1] = "b" /\ flds[2] = id

\* CtrlNet.detectoldbridge: lines[1:] scanned for an old bridge.
detectoldbridge(lines, id) ==
    \E k \in 2..Len(lines) : IsOldBridge(lines[k][1], id)

\* prefix.addr(hostid) or prefix.max_addr(), with the prefix length.
CtlAddr(cfg) ==
    IF cfg.hostid # None THEN <<"addr", cfg.hostid[1]>> ELSE <<"max_addr">>

\* The commands of startup after the bridge is created: address, script,
\* host interface.  fail names the command that fails, if any.
CtlStartupSteps(cfg, fail) ==
    LET address == IF cfg.assign_address
                   THEN << Cmd(<<"addrconfig", brname(cfg), CtlAddr(cfg)>>, TRUE) >>
                   ELSE <<>>
        script == IF cfg.updown_script # None
                  THEN << Cmd(<<cfg.updown_script[1], brname(cfg), "startup">>,
                              fail # "script") >>
                  ELSE <<>>
        join == IF cfg.serverintf = None THEN <<>>
                ELSE IF fail = "addif"
                THEN << Cmd(<<"brctl", "addif", brname(cfg), cfg.serverintf[1]>>, FALSE) >>
                ELSE << Cmd(<<"brctl", "addif", brname(cfg), cfg.serverintf[1]>>, TRUE),
                        Cmd(<<"ip", "link", "set", cfg.serverintf[1], "up">>,
                            fail # "linkup") >>
    IN  IF script # <<>> /\ fail = "script"
        THEN address \o script
        ELSE address \o script \o join

\* Which command of a call fails: none, or the named one.
CtlStartupFails == {"none", "show", "script", "addif", "linkup"}

\* startup: the script's CalledProcessError leaves the method; the one of
\* the host-interface commands is caught and logged.
CtlStartupRaisesOnJoin(fail) == fail \in {"script", "addif", "linkup"}
CtlStartupRaises(fail) == fail = "script"

\* CtrlNet.startup()
CtrlNet_startup(fail) ==
    LET cfg == ctl_cfg[1]
        show == Cmd(<<"brctl", "show">>, fail # "show")
        lines == brctl_show(host_bridges, show.ok)
    IN
    /\ fail = "script" => cfg.updown_script # None
    /\ fail \in {"addif", "linkup"} => cfg.serverintf # None
    /\ IF detectoldbridge(lines, cfg.objid)
       THEN /\ fail \in {"none", "show"}
            /\ calls' = <<show>>
            /\ ret' = Ret("CtrlNet.startup", NoExc, None)
            /\ UNCHANGED <<ctl_up, host_bridges>>
       ELSE /\ calls' = <<show, Cmd(<<"brctl", "addbr", brname(cfg)>>, TRUE)>>
                           \o CtlStartupSteps(cfg, fail)
            /\ host_bridges' = host_bridges \cup {brname(cfg)}
            /\ ctl_up' = TRUE
            /\ ret' = Ret("CtrlNet.startup",
                          IF CtlStartupRaises(fail) THEN "CalledProcessError" ELSE NoExc,
                          None)
    /\ UNCHANGED <<ctl_cfg, NotCtl>>

CtlShutdownFails == {"none", "delif", "script"}

\* shutdown: the script's CalledProcessError leaves the method; the one of
\* "brctl delif" is caught and logged.
CtlShutdownRaisesOnDelif(fail) == fail \in {"script", "delif"}
CtlShutdownRaises(fail) == fail = "script"

\* CtrlNet.shutdown()
CtrlNet_shutdown(fail) ==
    LET cfg == ctl_cfg[1]
        leave == IF cfg.serverintf # None
                 THEN << Cmd(<<"brctl", "delif", brname(cfg), cfg.serverintf[1]>>,
                             fail # "delif") >>
                 ELSE <<>>
        script == IF cfg.updown_script # None
                  THEN << Cmd(<<cfg.updown_script[1], brname(cfg), "shutdown">>,
                              fail # "script") >>
                  ELSE <<>>
        raised == CtlShutdownRaises(fail)
        base == IF ~raised /\ ctl_up
                THEN << Cmd(<<"brctl", "delbr", brname(cfg)>>, TRUE) >> ELSE <<>>
    IN
    /\ fail = "script" => cfg.updown_script # None
    /\ fail = "delif" => cfg.serverintf # None
    /\ calls' = leave \o script \o base
    /\ IF raised
       THEN /\ ret' = Ret("CtrlNet.shutdown", "CalledProcessError", None)
            /\ UNCHANGED <<ctl_up, host_bridges>>
       ELSE /\ ret' = Ret("CtrlNet.shutdown", NoExc, None)
            /\ ctl_up' = FALSE
            /\ host_bridges' = IF ctl_up THEN host_bridges \ {brname(cfg)}
                               ELSE host_bridges
    /\ UNCHANGED <<ctl_cfg, NotCtl>>


\* =============================================================== WlanNode
\* Model classes: name, config_type, and whether the class defines a
\* position_callback (the attribute is None on a class that defines none).
ModelClasses ==
    { [name |-> "basic_range", config_type |-> "WIRELESS", callback |-> TRUE],
      [name |-> "emane_like", config_type |-> "WIRELESS", callback |-> FALSE],
      [name |-> "ns2script", config_type |-> "MOBILITY", callback |-> FALSE] }
ModelNames == { c.name : c \in ModelClasses }
\* The interfaces that get attached to the WlanNode.
WlanNetifs == { i \in Netifs : i <= NumWlanNetifs }
ConfigValues == {"cfg0", "cfg1"}

\* model(session=..., object_id=..., values=config): a new instance.
NewModel(cls, k, config) ==
    [name |-> cls.name, config_type |-> cls.config_type, callback |-> cls.callback,
     inst |-> k, values |-> config]
\* model.position_callback: the bound method of the instance, or None.
position_callback(m) == IF m.callback THEN Some(m.inst) ELSE None

\* A callback invocation poshook(netif, x, y, z).
Invoke(hook, i) == Cmd(<<"position_callback", hook[1], i, if_node[i][1]>>, TRUE)
\* model.setlinkparams() and model.updateconfig(values) -> bool
SetLinkParams(m) == Cmd(<<"setlinkparams", m.inst>>, TRUE)
UpdateConfig(m, values, accepted) == Cmd(<<"updateconfig", m.inst, values>>, accepted)

\* The wiring loop of setmodel and updatemodel over self.netifs(): every
\* interface gets the callback as its poshook, and the hook is called for
\* the interfaces that have a node.
RECURSIVE WireCalls(_, _)
WireCalls(reg, hook) ==
    IF reg = <<>> THEN <<>>
    ELSE (IF if_node[Head(reg)] # None THEN << Invoke(hook, Head(reg)) >> ELSE <<>>)
         \o WireCalls(Tail(reg), hook)
WireHooks(reg, hook) ==
    [i \in Netifs |-> IF i \in Range(reg) THEN hook ELSE if_poshook[i]]

\* attach: "if self.model:"
HasModelNever(model) == FALSE
HasModel(model) == model # None

\* WlanNode.attach(netif)
WlanNode_attach(i) ==
    /\ i \notin Range(w_netif)
    /\ w_netif' = LxBrNet_attach(w_netif, i)
    /\ IF HasModel(w_model)
       THEN LET hook == position_callback(w_model[1])
            IN  /\ if_poshook' = [if_poshook EXCEPT ![i] = hook]
                \* netif.setposition(x, y, z) invokes the poshook, if any
                /\ calls' = IF if_node[i] # None /\ hook # None
                            THEN << Invoke(hook, i) >> ELSE <<>>
       ELSE /\ UNCHANGED if_poshook
            /\ calls' = <<>>
    /\ ret' = Ret("WlanNode.attach", NoExc, i)
    /\ UNCHANGED <<if_node, w_model, w_mobility, w_made, NotWlan>>

\* detach (LxBrNet.detach): the poshook of the interface is left as it is.
WlanNode_detach(i) ==
    /\ i \in Range(w_netif)
    /\ w_netif' = LxBrNet_detach(w_netif, i)
    /\ ret' = Ret("WlanNode.detach", NoExc, i)
    /\ calls' = <<>>
    /\ UNCHANGED <<if_node, if_poshook, w_model, w_mobility, w_made, NotWlan>>

\* setmodel: "if model.config_type == RegisterTlvs.WIRELESS.value"
IsWirelessAlways(cls) == TRUE
IsWireless(cls) == cls.config_type = "WIRELESS"

\* WlanNode.setmodel(model, config)
WlanNode_setmodel(cls, config) ==
    /\ w_made < MaxModels
    /\ w_made' = w_made + 1
    /\ LET m == NewModel(cls, w_made + 1, config)
           hook == position_callback(m)
       IN  IF IsWireless(cls)
           THEN /\ w_model' = Some(m)
                /\ UNCHANGED w_mobility
                /\ IF hook # None
                   THEN /\ if_poshook' = WireHooks(w_netif, hook)
                        /\ calls' = WireCalls(w_netif, hook) \o << SetLinkParams(m) >>
                   ELSE /\ UNCHANGED if_poshook
                        /\ calls' = << SetLinkParams(m) >>
           ELSE IF cls.config_type = "MOBILITY"
           THEN /\ w_mobility' = Some(m)
                /\ calls' = <<>>
                /\ UNCHANGED <<w_model, if_poshook>>
           ELSE /\ calls' = <<>>
                /\ UNCHANGED <<w_model, w_mobility, if_poshook>>
    /\ ret' = Ret("WlanNode.setmodel", NoExc, cls.name)
    /\ UNCHANGED <<if_node, w_netif, NotWlan>>

\* updatemodel: "if self.model is None or self.model.name != model_name: return"
UpdateAppliesAnyName(model, model_name) == model # None
UpdateApplies(model, model_name) ==
    model # None /\ model[1].name = model_name

\* WlanNode.updatemodel(model_name, values); accepted is the answer of
\* model.updateconfig(values), when it is asked.
WlanNode_updatemodel(model_name, values, accepted) ==
    /\ ret' = Ret("WlanNode.updatemodel", NoExc, model_name)
    /\ UNCHANGED <<if_node, w_netif, w_mobility, w_made, NotWlan>>
    /\ IF ~UpdateApplies(w_model, model_name)
       THEN /\ accepted
            /\ calls' = <<>>
            /\ UNCHANGED <<w_model, if_poshook>>
       ELSE LET model == w_model[1]
                hook == position_callback(model)
            IN  IF model.config_type # "WIRELESS"
                THEN /\ accepted
                     /\ calls' = <<>>
                     /\ UNCHANGED <<w_model, if_poshook>>
                ELSE IF ~accepted
                THEN /\ calls' = << UpdateConfig(model, values, FALSE) >>
                     /\ UNCHANGED <<w_model, if_poshook>>
                ELSE LET updated == [model EXCEPT !.values = values]
                     IN  /\ w_model' = Some(updated)
                         /\ IF hook # None
                            THEN /\ if_poshook' = WireHooks(w_netif, hook)
                                 /\ calls' = << UpdateConfig(model, values, TRUE) >>
                                             \o WireCalls(w_netif, hook)
                                             \o << SetLinkParams(updated) >>
                            ELSE /\ UNCHANGED if_poshook
                                 /\ calls' = << UpdateConfig(model, values, TRUE),
                                                SetLinkParams(updated) >>

\* =============================================================== RJ45Node
Threads == 1..NumThreads
\* self.localname (= self.name): the host NIC.
LocalName == "eth0"

\* A word of command output, held as its first four characters and the rest.
Tok(head, rest) == <<head, rest>>

\* An address of the host NIC as "ip addr show" prints it: family, CIDR
\* address, broadcast address if it has one.
HostAddr(family, addr, brd) == [family |-> family, addr |-> addr, brd |-> brd]
FamilyOf(addr) == IF addr[1] \in {"2001", "fe80"} THEN "inet6" ELSE "inet"
BroadcastTexts == { Tok("10.0", ".0.255") }
H4 == HostAddr("inet", Tok("10.0", ".0.5/24"), Some(Tok("10.0", ".0.255")))
H4n == HostAddr("inet", Tok("192.", "168.1.1/32"), None)
H6 == HostAddr("inet6", Tok("2001", ":db8::1/64"), None)
HLL == HostAddr("inet6", Tok("fe80", "::1/64"), None)
\* Addresses the NIC may carry before the emulator uses it.
HostAddrs == {H4, H4n, H6, HLL}
\* Addresses the emulator is asked to put on the NIC.
EmuAddrs == { Tok("172.", "16.0.1/24"), H4.addr }
\* The order in which "ip addr show" lists what is on the NIC.
HostAddrOrder ==
    <<H4, H4n, H6, HLL>> \o
    << HostAddr("inet", Tok("172.", "16.0.1/24"), None),
       HostAddr("inet", H4.addr, None) >>

Nets == 1..NumNets
NetArgs == {None} \cup { Some(n) : n \in Nets }
IfindexArgs == {None, Some(0), Some(1)}
AddrlistArgs == { <<>>, << Tok("172.", "16.0.1/24") >> }

\* --- host commands
IpLinkSet(st) == <<"ip", "link", "set", LocalName, st>>
IpAddrFlush == <<"ip", "addr", "flush", "dev", LocalName>>
TcQdiscDel == <<"tc", "qdisc", "del", "dev", LocalName, "root">>
IpAddrAdd(a) == <<"ip", "addr", "add", a, "dev", LocalName>>
IpAddrAddBrd(a, b) == <<"ip", "addr", "add", a, "brd", b, "dev", LocalName>>
IpAddrDel(a) == <<"ip", "addr", "del", a, "dev", LocalName>>
IpAddrShow == <<"ip", "addr", "show", "dev", LocalName>>

\* What a command does to the NIC, and whether it exits with status 0: an
\* address is added once, with a broadcast that is an address; only an
\* address that is there is deleted.
HostApply(host, c) ==
    IF c[1] = "tc" THEN [ok |-> TRUE, host |-> host]
    ELSE IF c[2] = "link"
    THEN [ok |-> TRUE, host |-> [host EXCEPT !.up = (c[5] = "up")]]
    ELSE IF c[3] = "flush"
    THEN [ok |-> TRUE, host |-> [host EXCEPT !.addrs = {}]]
    ELSE IF c[3] = "add"
    THEN LET a == c[4]
             brd == IF c[5] = "brd" THEN Some(c[6]) ELSE None
             good == /\ brd = None \/ brd[1] \in BroadcastTexts
                     /\ ~\E h \in host.addrs : h.addr = a
         IN  [ok |-> good,
              host |-> IF good
                       THEN [host EXCEPT !.addrs = @ \cup {HostAddr(FamilyOf(a), a, brd)}]
                       ELSE host]
    ELSE LET a == c[4]
         IN  [ok |-> \E h \in host.addrs : h.addr = a,
              host |-> [host EXCEPT !.addrs = { h \in @ : h.addr # a }]]

\* subprocess.check_call on each command of a list in turn, until one fails
\* (CalledProcessError).  failAt is the position of a command that fails for
\* a reason of its own (0: none does).
RECURSIVE Exec(_, _, _)
Exec(cmds, host, failAt) ==
    IF cmds = <<>> THEN [host |-> host, trace |-> <<>>, raised |-> FALSE]
    ELSE LET c == Head(cmds)
             r == IF failAt = 1 THEN [ok |-> FALSE, host |-> host]
                  ELSE HostApply(host, c)
         IN  IF ~r.ok
             THEN [host |-> host, trace |-> << Cmd(c, FALSE) >>, raised |-> TRUE]
             ELSE LET rest == Exec(Tail(cmds), r.host, failAt - 1)
                  IN  [host |-> rest.host,
                       trace |-> << Cmd(c, TRUE) >> \o rest.trace,
                       raised |-> rest.raised]

AllOk(trace) == \A k \in DOMAIN trace : trace[k].ok

\* --- savestate
\* The lines of "ip addr show dev <localname>", each split into its words;
\* the third word of the first line is held as the list of flags between
\* its angle brackets.
AddrLines(h) ==
    << << Tok("inet", IF h.family = "inet" THEN "" ELSE "6"), h.addr >>
       \o (IF h.brd # None THEN << Tok("brd", ""), h.brd[1] >> ELSE <<>>)
       \o << Tok("scop", "e"),
             IF h.addr[1] = "fe80" THEN Tok("link", "") ELSE Tok("glob", "al"),
             Tok(LocalName, "") >>,
       << Tok("vali", "d_lft"), Tok("fore", "ver"),
          Tok("pref", "erred_lft"), Tok("fore", "ver") >> >>
RECURSIVE AddrOutput(_, _)
AddrOutput(order, addrs) ==
    IF order = <<>> THEN <<>>
    ELSE (IF Head(order) \in addrs THEN AddrLines(Head(order)) ELSE <<>>)
         \o AddrOutput(Tail(order), addrs)
ip_addr_show(host) ==
    << << Tok("2:", ""), Tok(LocalName, ":"),
          IF host.up THEN <<"BROADCAST", "MULTICAST", "UP", "LOWER_UP">>
          ELSE <<"BROADCAST", "MULTICAST">>,
          Tok("mtu", ""), Tok("1500", "") >>,
       << Tok("link", "/ether"), Tok("00:1", "1:22:33:44:55"),
          Tok("brd", ""), Tok("ff:f", "f:ff:ff:ff:ff") >> >>
    \o AddrOutput(HostAddrOrder, host.addrs)
    \o << <<>> >>

\* The loop of savestate over the lines.
SkipsLinkLocalNever(word) == FALSE
SkipsLinkLocal(word) == word[1] = "fe80"
RECURSIVE savestate_scan(_, _)
savestate_scan(lines, acc) ==
    IF lines = <<>> THEN acc
    ELSE LET items == Head(lines)
             next ==
               IF Len(items) < 2 THEN acc
               ELSE IF items[2] = Tok(LocalName, ":")
               THEN IF "UP" \in Range(items[3])
                    THEN [acc EXCEPT !.old_up = TRUE] ELSE acc
               ELSE IF items[1] = Tok("inet", "")
               THEN [acc EXCEPT !.old_addrs = Append(@, <<items[2], Some(items[4])>>)]
               ELSE IF items[1] = Tok("inet", "6")
               THEN IF SkipsLinkLocal(items[2]) THEN acc
                    ELSE [acc EXCEPT !.old_addrs = Append(@, <<items[2], None>>)]
               ELSE acc
         IN  savestate_scan(Tail(lines), next)

\* RJ45Node.savestate(); how: "ok", "status" (the command exits non-zero:
\* logged, nothing captured) or "oserror" (Popen raises OSError: logged, and
\* tmp is then read unbound).
SaveOutcomes == {"ok", "status", "oserror"}
savestate(host, how) ==
    LET empty == [old_up |-> FALSE, old_addrs |-> <<>>]
    IN  [snap |-> IF how = "ok" THEN savestate_scan(ip_addr_show(host), empty)
                  ELSE empty,
         exc |-> IF how = "oserror" THEN "UnboundLocalError" ELSE NoExc,
         trace |-> << Cmd(IpAddrShow, how = "ok") >>]

\* RJ45Node.restorestate(): the commands it issues, in order.
RestoreLinkNever(old_up) == <<>>
RestoreLink(old_up) == IF old_up THEN << IpLinkSet("up") >> ELSE <<>>
restorestate(old_addrs, old_up) ==
    [k \in 1..Len(old_addrs) |->
        IF old_addrs[k][2] = None THEN IpAddrAdd(old_addrs[k][1])
        ELSE IpAddrAddBrd(old_addrs[k][1], old_addrs[k][2][1])]
    \o RestoreLink(old_up)

\* RJ45Node.shutdown() on a node whose fields are (up, old_addrs, old_up)
\* and a NIC in state host: the new up flag and NIC, the commands issued and
\* the exception raised.  The tc command is muted: its status is ignored.
\* shutdown: "self.up = False", between the qdisc removal and restorestate.
UpAfterTeardownKept(up) == up
UpAfterTeardown(up) == FALSE
shutdown(up, old_addrs, old_up, host, failAt) ==
    IF ~up
    THEN [up |-> up, host |-> host, trace |-> <<>>, exc |-> NoExc]
    ELSE LET p1 == Exec(<< IpLinkSet("down"), IpAddrFlush >>, host, failAt)
             tc == Cmd(TcQdiscDel, failAt # 3)
             p2 == Exec(restorestate(old_addrs[1], old_up[1]), p1.host, failAt - 3)
         IN  IF p1.raised
             THEN [up |-> up, host |-> p1.host, trace |-> p1.trace,
                   exc |-> "CalledProcessError"]
             ELSE [up |-> UpAfterTeardown(up), host |-> p2.host,
                   trace |-> p1.trace \o <<tc>> \o p2.trace,
                   exc |-> IF p2.raised THEN "CalledProcessError" ELSE NoExc]
\* The number of commands shutdown may issue.
ShutdownCmds(up, old_addrs, old_up) ==
    IF ~up THEN 0 ELSE 3 + Len(restorestate(old_addrs[1], old_up[1]))

\* startup: self.savestate() comes first, the link-up command second.
StartupCallsLinkFirst(save, link) == <<link>> \o save
StartupCalls(save, link) == save \o <<link>>

\* RJ45Node.startup()
RJ45Node_startup(how, linkok) ==
    LET sv == savestate(host_nic, how)
        link == Cmd(IpLinkSet("up"), linkok)
    IN
    /\ rj_old_up' = Some(sv.snap.old_up)
    /\ rj_old_addrs' = Some(sv.snap.old_addrs)
    /\ rj_pre' = Some(host_nic)
    /\ IF sv.exc # NoExc
       THEN /\ linkok
            /\ calls' = sv.trace
            /\ rj_clean' = FALSE
            /\ UNCHANGED <<rj_up, host_nic>>
       ELSE /\ calls' = StartupCalls(sv.trace, link)
            /\ rj_clean' = AllOk(calls')
            /\ rj_up' = IF linkok THEN TRUE ELSE rj_up
            /\ host_nic' = IF linkok THEN [host_nic EXCEPT !.up = TRUE] ELSE host_nic
    /\ ret' = Ret("RJ45Node.startup", sv.exc, None)
    /\ UNCHANGED <<rj_net, rj_ifindex, rj_netif, rj_addrlist, net_members, NotRJ>>

\* RJ45Node.shutdown()
RJ45Node_shutdown ==
    \E failAt \in 0..ShutdownCmds(rj_up, rj_old_addrs, rj_old_up) :
    LET r == shutdown(rj_up, rj_old_addrs, rj_old_up, host_nic, failAt)
    IN
    /\ failAt > 0 => ~AllOk(r.trace)
    /\ rj_up' = r.up
    /\ host_nic' = r.host
    /\ calls' = r.trace
    /\ rj_clean' = (rj_clean /\ AllOk(r.trace))
    /\ ret' = Ret("RJ45Node.shutdown", r.exc, None)
    /\ UNCHANGED <<rj_net, rj_ifindex, rj_netif, rj_addrlist, rj_old_up,
                   rj_old_addrs, net_members, rj_pre, NotRJ>>

\* PyCoreNetIf.attachnet(net), for an interface with no network: the network
\* registers the interface, the interface records the network.
PyCoreNetIf_attachnet(members, net) == members \cup {net}

\* newnetif: "if self.net is not None: raise ValueError"
AlreadyAttachedNever(net) == FALSE
AlreadyAttached(net) == net # None

\* RJ45Node.newnetif(net, addrlist, hwaddr, ifindex, ifname), under self.lock.
\* Each address goes through addaddr: a host command while the node is up,
\* then the append; a failing command leaves newnetif by CalledProcessError.
RJ45Node_newnetif(net, addrlist, ifindexArg) ==
    \E failAt \in 0..(IF rj_up THEN Len(addrlist) ELSE 0) :
    LET ifindex == IF ifindexArg = None THEN 0 ELSE ifindexArg[1]
        cmds == IF rj_up THEN [k \in DOMAIN addrlist |-> IpAddrAdd(addrlist[k])]
                ELSE <<>>
        r == Exec(cmds, host_nic, failAt)
        added == IF r.raised THEN Len(r.trace) - 1 ELSE Len(addrlist)
    IN
    /\ Len(rj_addrlist) + Len(addrlist) <= MaxAddrs
    /\ failAt > 0 => ~AllOk(r.trace)
    /\ IF AlreadyAttached(rj_net)
       THEN /\ failAt = 0
            /\ ret' = Ret("RJ45Node.newnetif", "ValueError", None)
            /\ calls' = <<>>
            /\ UNCHANGED <<rj_net, rj_ifindex, rj_netif, rj_addrlist, net_members,
                           host_nic, rj_clean>>
       ELSE /\ rj_netif' = [k \in DOMAIN rj_netif \cup {ifindex} |-> "self"]
            /\ rj_ifindex' = Some(ifindex)
            /\ IF net # None
               THEN /\ rj_net' = net
                    /\ net_members' = PyCoreNetIf_attachnet(net_members, net[1])
               ELSE UNCHANGED <<rj_net, net_members>>
            /\ rj_addrlist' = rj_addrlist \o SubSeq(addrlist, 1, added)
            /\ host_nic' = r.host
            /\ calls' = r.trace
            /\ rj_clean' = (rj_clean /\ AllOk(r.trace))
            /\ ret' = IF r.raised
                      THEN Ret("RJ45Node.newnetif", "CalledProcessError", None)
                      ELSE Ret("RJ45Node.newnetif", NoExc, Some(ifindex))
    /\ UNCHANGED <<rj_up, rj_old_up, rj_old_addrs, rj_pre, NotRJ>>

\* RJ45Node.delnetif(ifindex)
RJ45Node_delnetif(ifindexArg) ==
    LET ifindex == IF ifindexArg = None THEN 0 ELSE ifindexArg[1]
        own == rj_ifindex = Some(ifindex)
    IN
    \E failAt \in 0..(IF own THEN ShutdownCmds(rj_up, rj_old_addrs, rj_old_up) ELSE 0) :
    LET r == shutdown(rj_up, rj_old_addrs, rj_old_up, host_nic, failAt)
    IN
    /\ failAt > 0 => ~AllOk(r.trace)
    /\ IF ifindex \notin DOMAIN rj_netif
       THEN /\ failAt = 0
            /\ ret' = Ret("RJ45Node.delnetif", "ValueError", ifindexArg)
            /\ calls' = <<>>
            /\ UNCHANGED <<rj_netif, rj_up, host_nic, rj_clean>>
       ELSE /\ rj_netif' = [k \in DOMAIN rj_netif \ {ifindex} |-> "self"]
            /\ IF own
               THEN /\ rj_up' = r.up
                    /\ host_nic' = r.host
                    /\ calls' = r.trace
                    /\ rj_clean' = (rj_clean /\ AllOk(r.trace))
                    /\ ret' = Ret("RJ45Node.delnetif", r.exc, ifindexArg)
               ELSE /\ ret' = Ret("RJ45Node.delnetif", "ValueError", ifindexArg)
                    /\ calls' = <<>>
                    /\ UNCHANGED <<rj_up, host_nic, rj_clean>>
    /\ UNCHANGED <<rj_net, rj_ifindex, rj_addrlist, rj_old_up, rj_old_addrs,
                   net_members, rj_pre, NotRJ>>

\* RJ45Node.netif(ifindex, net): the node itself or None, on a node whose
\* fields are (self_net, self_ifindex).
RJ45Node_netif(ifindexArg, netArg, self_net, self_ifindex) ==
    IF netArg # None /\ netArg = self_net THEN Some("self")
    ELSE LET ifindex == IF ifindexArg = None THEN 0 ELSE ifindexArg[1]
         IN  IF Some(ifindex) = self_ifindex THEN Some("self") ELSE None

\* RJ45Node.addaddr(addr)
RJ45Node_addaddr(addr, inject) ==
    LET r == Exec(IF rj_up THEN << IpAddrAdd(addr) >> ELSE <<>>, host_nic,
                  IF inject THEN 1 ELSE 0)
    IN
    /\ Len(rj_addrlist) < MaxAddrs
    /\ inject => rj_up
    /\ host_nic' = r.host
    /\ calls' = r.trace
    /\ rj_clean' = (rj_clean /\ AllOk(r.trace))
    /\ IF r.raised
       THEN /\ ret' = Ret("RJ45Node.addaddr", "CalledProcessError", None)
            /\ UNCHANGED rj_addrlist
       ELSE /\ ret' = Ret("RJ45Node.addaddr", NoExc, None)
            \* PyCoreNetIf.addaddr: self.addrlist.append(addr)
            /\ rj_addrlist' = Append(rj_addrlist, addr)
    /\ UNCHANGED <<rj_up, rj_net, rj_ifindex, rj_netif, rj_old_up, rj_old_addrs,
                   net_members, rj_pre, NotRJ>>

\* list.remove(x): the first occurrence goes; ValueError when there is none.
RemoveFirst(list, x) ==
    LET k == CHOOSE j \in DOMAIN list : list[j] = x /\ \A i \in 1..(j - 1) : list[i] # x
    IN  SubSeq(list, 1, k - 1) \o SubSeq(list, k + 1, Len(list))

\* RJ45Node.deladdr(addr)
RJ45Node_deladdr(addr, inject) ==
    LET r == Exec(IF rj_up THEN << IpAddrDel(addr) >> ELSE <<>>, host_nic,
                  IF inject THEN 1 ELSE 0)
    IN
    /\ inject => rj_up
    /\ host_nic' = r.host
    /\ calls' = r.trace
    /\ rj_clean' = (rj_clean /\ AllOk(r.trace))
    /\ IF r.raised
       THEN /\ ret' = Ret("RJ45Node.deladdr", "CalledProcessError", None)
            /\ UNCHANGED rj_addrlist
       ELSE IF addr \in Range(rj_addrlist)
       THEN /\ ret' = Ret("RJ45Node.deladdr", NoExc, None)
            \* PyCoreNetIf.deladdr: self.addrlist.remove(addr)
            /\ rj_addrlist' = RemoveFirst(rj_addrlist, addr)
       ELSE /\ ret' = Ret("RJ45Node.deladdr", "ValueError", None)
            /\ UNCHANGED rj_addrlist
    /\ UNCHANGED <<rj_up, rj_net, rj_ifindex, rj_netif, rj_old_up, rj_old_addrs,
                   net_members, rj_pre, NotRJ>>

\* --- RJ45Node called from several threads.  A thread runs one call at a
\* time, a statement (or a run of statements) per step; only newnetif takes
\* self.lock.  Host commands succeed unless the NIC's state makes them fail.
ThreadOps == {"RJ45Node.startup", "RJ45Node.shutdown", "RJ45Node.newnetif",
              "RJ45Node.delnetif"}
ThreadArgs(op) ==
    IF op = "RJ45Node.newnetif" THEN NetArgs
    ELSE IF op = "RJ45Node.delnetif" THEN IfindexArgs
    ELSE {None}
Entry(op) ==
    IF op = "RJ45Node.startup" THEN "startup:savestate"
    ELSE IF op = "RJ45Node.shutdown" THEN "shutdown:check"
    ELSE IF op = "RJ45Node.newnetif" THEN "newnetif:acquire"
    ELSE "delnetif:check"
Goto(t, label) == pc' = [pc EXCEPT ![t] = label]
Return(t, exc) ==
    /\ pc' = [pc EXCEPT ![t] = "idle"]
    /\ ret' = Ret(t_arg[t][1], exc, None)
    /\ t_arg' = [t_arg EXCEPT ![t] = None]
ThreadFrame == UNCHANGED <<rj_addrlist, rj_pre, rj_clean, calls, NotRJThreads>>

\* a thread enters a method
Thread_call(t, op, arg) ==
    /\ pc[t] = "idle"
    /\ Goto(t, Entry(op))
    /\ t_arg' = [t_arg EXCEPT ![t] = <<op, arg>>]
    /\ UNCHANGED <<rj_up, rj_net, rj_ifindex, rj_netif, rj_old_up, rj_old_addrs,
                   net_members, host_nic, lock, ret>>
    /\ ThreadFrame

\* startup: self.savestate()
Thread_startup_savestate(t) ==
    LET sv == savestate(host_nic, "ok")
    IN
    /\ pc[t] = "startup:savestate"
    /\ rj_old_up' = Some(sv.snap.old_up)
    /\ rj_old_addrs' = Some(sv.snap.old_addrs)
    /\ Goto(t, "startup:link")
    /\ UNCHANGED <<rj_up, rj_net, rj_ifindex, rj_netif, net_members, host_nic,
                   lock, ret, t_arg>>
    /\ ThreadFrame

\* startup: check_call([IP_BIN, "link", "set", self.localname, "up"])
Thread_startup_link(t) ==
    /\ pc[t] = "startup:link"
    /\ host_nic' = Exec(<< IpLinkSet("up") >>, host_nic, 0).host
    /\ Goto(t, "startup:up")
    /\ UNCHANGED <<rj_up, rj_net, rj_ifindex, rj_netif, rj_old_up, rj_old_addrs,
                   net_members, lock, ret, t_arg>>
    /\ ThreadFrame

\* startup: self.up = True
Thread_startup_up(t) ==
    /\ pc[t] = "startup:up"
    /\ rj_up' = TRUE
    /\ Return(t, NoExc)
    /\ UNCHANGED <<rj_net, rj_ifindex, rj_netif, rj_old_up, rj_old_addrs,
                   net_members, host_nic, lock>>
    /\ ThreadFrame

\* shutdown: "if not self.up: return"
Thread_shutdown_check(t) ==
    /\ pc[t] = "shutdown:check"
    /\ IF ~rj_up THEN Return(t, NoExc)
       ELSE Goto(t, "shutdown:down") /\ UNCHANGED <<ret, t_arg>>
    /\ UNCHANGED <<rj_up, rj_net, rj_ifindex, rj_netif, rj_old_up, rj_old_addrs,
                   net_members, host_nic, lock>>
    /\ ThreadFrame

\* shutdown: link down, addr flush, tc qdisc del
Thread_shutdown_down(t) ==
    /\ pc[t] = "shutdown:down"
    /\ host_nic' = Exec(<< IpLinkSet("down"), IpAddrFlush, TcQdiscDel >>, host_nic, 0).host
    /\ Goto(t, "shutdown:clear")
    /\ UNCHANGED <<rj_up, rj_net, rj_ifindex, rj_netif, rj_old_up, rj_old_addrs,
                   net_members, lock, ret, t_arg>>
    /\ ThreadFrame

\* shutdown: self.up = False
Thread_shutdown_clear(t) ==
    /\ pc[t] = "shutdown:clear"
    /\ rj_up' = FALSE
    /\ Goto(t, "shutdown:restore")
    /\ UNCHANGED <<rj_net, rj_ifindex, rj_netif, rj_old_up, rj_old_addrs,
                   net_members, host_nic, lock, ret, t_arg>>
    /\ ThreadFrame

\* shutdown: self.restorestate()
Thread_shutdown_restore(t) ==
    LET r == Exec(restorestate(rj_old_addrs[1], rj_old_up[1]), host_nic, 0)
    IN
    /\ pc[t] = "shutdown:restore"
    /\ host_nic' = r.host
    /\ Return(t, IF r.raised THEN "CalledProcessError" ELSE NoExc)
    /\ UNCHANGED <<rj_up, rj_net, rj_ifindex, rj_netif, rj_old_up, rj_old_addrs,
                   net_members, lock>>
    /\ ThreadFrame

\* newnetif: "with self.lock:" (an RLock no other thread holds)
Thread_newnetif_acquire(t) ==
    /\ pc[t] = "newnetif:acquire"
    /\ lock \in {None, Some(t)}
    /\ lock' = Some(t)
    /\ Goto(t, "newnetif:body")
    /\ UNCHANGED <<rj_up, rj_net, rj_ifindex, rj_netif, rj_old_up, rj_old_addrs,
                   net_members, host_nic, ret, t_arg>>
    /\ ThreadFrame

\* newnetif: the body of the with statement, called with no addresses
Thread_newnetif_body(t) ==
    LET net == t_arg[t][2]
    IN
    /\ pc[t] = "newnetif:body"
    /\ IF AlreadyAttached(rj_net)
       THEN /\ ret' = Ret(t_arg[t][1], "ValueError", None)
            /\ UNCHANGED <<rj_net, rj_ifindex, rj_netif, net_members>>
       ELSE /\ rj_netif' = [k \in DOMAIN rj_netif \cup {0} |-> "self"]
            /\ rj_ifindex' = Some(0)
            /\ IF net # None
               THEN /\ rj_net' = net
                    /\ net_members' = PyCoreNetIf_attachnet(net_members, net[1])
               ELSE UNCHANGED <<rj_net, net_members>>
            /\ ret' = Ret(t_arg[t][1], NoExc, Some(0))
    /\ Goto(t, "newnetif:release")
    /\ UNCHANGED <<rj_up, rj_old_up, rj_old_addrs, host_nic, lock, t_arg>>
    /\ ThreadFrame

\* newnetif: leaving the with statement releases the lock
Thread_newnetif_release(t) ==
    /\ pc[t] = "newnetif:release"
    /\ lock' = None
    /\ Goto(t, "idle")
    /\ t_arg' = [t_arg EXCEPT ![t] = None]
    /\ UNCHANGED <<rj_up, rj_net, rj_ifindex, rj_netif, rj_old_up, rj_old_addrs,
                   net_members, host_nic, ret>>
    /\ ThreadFrame

\* delnetif: "if ifindex not in self._netif: raise ValueError"
Thread_delnetif_check(t) ==
    LET ifindex == IF t_arg[t][2] = None THEN 0 ELSE t_arg[t][2][1]
    IN
    /\ pc[t] = "delnetif:check"
    /\ IF ifindex \notin DOMAIN rj_netif THEN Return(t, "ValueError")
       ELSE Goto(t, "delnetif:pop") /\ UNCHANGED <<ret, t_arg>>
    /\ UNCHANGED <<rj_up, rj_net, rj_ifindex, rj_netif, rj_old_up, rj_old_addrs,
                   net_members, host_nic, lock>>
    /\ ThreadFrame

\* delnetif: self._netif.pop(ifindex), then "if ifindex == self.ifindex"
Thread_delnetif_pop(t) ==
    LET ifindex == IF t_arg[t][2] = None THEN 0 ELSE t_arg[t][2][1]
    IN
    /\ pc[t] = "delnetif:pop"
    /\ IF ifindex \notin DOMAIN rj_netif
       THEN Return(t, "KeyError") /\ UNCHANGED rj_netif
       ELSE /\ rj_netif' = [k \in DOMAIN rj_netif \ {ifindex} |-> "self"]
            /\ IF rj_ifindex = Some(ifindex)
               THEN Goto(t, "shutdown:check") /\ UNCHANGED <<ret, t_arg>>
               ELSE Return(t, "ValueError")
    /\ UNCHANGED <<rj_up, rj_net, rj_ifindex, rj_old_up, rj_old_addrs,
                   net_members, host_nic, lock>>
    /\ ThreadFrame

\* ======================================================== specifications
IfInit ==
    /\ if_params \in [Netifs -> ParamChoices]
    /\ if_addrlist \in [Netifs -> AddrListChoices]
    /\ if_node = [i \in Netifs |-> Some(position(i))]
    /\ if_poshook = [i \in Netifs |-> None]
IfIdle ==
    /\ if_params = [i \in Netifs |-> CHOOSE p \in ParamChoices : TRUE]
    /\ if_addrlist = [i \in Netifs |-> <<>>]
    /\ if_node = [i \in Netifs |-> Some(position(i))]
    /\ if_poshook = [i \in Netifs |-> None]
ThreadsIdle ==
    /\ pc = [t \in Threads |-> "idle"]
    /\ t_arg = [t \in Threads |-> None]
    /\ lock = None
RJIdle ==
    /\ rj_up = FALSE
    /\ rj_net = None
    /\ rj_ifindex = None
    /\ rj_netif = <<>>
    /\ rj_addrlist = <<>>
    /\ rj_old_up = None
    /\ rj_old_addrs = None
    /\ net_members = {}
    /\ host_nic = [up |-> FALSE, addrs |-> {}]
    /\ rj_pre = None
    /\ rj_clean = TRUE
    /\ ThreadsIdle
WlanIdle ==
    /\ w_netif = <<>>
    /\ w_model = None
    /\ w_mobility = None
    /\ w_made = 0
PtpIdle == ptp_netif = <<>>
RetInit ==
    /\ ret = Ret("init", NoExc, None)
    /\ calls = <<>>

CtlIdle ==
    /\ ctl_cfg = None
    /\ ctl_up = FALSE
    /\ host_bridges = {}

HubIdle ==
    /\ br_kind = [n \in BridgeIds |-> "none"]
    /\ br_up = [n \in BridgeIds |-> FALSE]
    /\ br_host = [n \in BridgeIds |-> None]

InitPtp ==
    /\ IfInit
    /\ ptp_netif = <<>>
    /\ RetInit
    /\ HubIdle /\ CtlIdle /\ WlanIdle /\ RJIdle

NextPtp ==
    \/ \E i \in Netifs : PtpNet_attach(i)
    \/ \E i \in Netifs : PtpNet_detach(i)
    \/ \E flags \in MessageFlags : PtpNet_all_link_data(flags)

SpecPtp == InitPtp /\ [][NextPtp]_vars

InitCtl ==
    /\ ctl_cfg \in { Some(c) : c \in CtlConfigs }
    /\ ctl_up = FALSE
    /\ host_bridges \in SUBSET ForeignBridges
    /\ RetInit /\ IfIdle /\ PtpIdle /\ HubIdle /\ WlanIdle /\ RJIdle

NextCtl ==
    \/ \E fail \in CtlStartupFails : CtrlNet_startup(fail)
    \/ \E fail \in CtlShutdownFails : CtrlNet_shutdown(fail)

SpecCtl == InitCtl /\ [][NextCtl]_vars

InitWlan ==
    /\ if_params = [i \in Netifs |-> CHOOSE p \in ParamChoices : TRUE]
    /\ if_addrlist = [i \in Netifs |-> <<>>]
    /\ if_node \in [Netifs -> {None} \cup { Some(position(i)) : i \in Netifs }]
    /\ \A i \in WlanNetifs : if_node[i] \in {None, Some(position(i))}
    /\ \A i \in Netifs \ WlanNetifs : if_node[i] = Some(position(i))
    /\ if_poshook = [i \in Netifs |-> None]
    /\ WlanIdle
    /\ RetInit /\ PtpIdle /\ HubIdle /\ CtlIdle /\ RJIdle

NextWlan ==
    \/ \E i \in WlanNetifs : WlanNode_attach(i)
    \/ \E i \in WlanNetifs : WlanNode_detach(i)
    \/ \E cls \in ModelClasses, config \in ConfigValues : WlanNode_setmodel(cls, config)
    \/ \E name \in ModelNames, values \in ConfigValues, accepted \in BOOLEAN :
           WlanNode_updatemodel(name, values, accepted)

SpecWlan == InitWlan /\ [][NextWlan]_vars

\* The node before its first call, on a host NIC in state hosts.
RJFresh(hosts) ==
    /\ rj_up = FALSE
    /\ rj_net = None
    /\ rj_ifindex = None
    /\ rj_netif = <<>>
    /\ rj_addrlist = <<>>
    /\ rj_old_up = None
    /\ rj_old_addrs = None
    /\ net_members = {}
    /\ host_nic \in hosts
    /\ rj_pre = None
    /\ rj_clean = TRUE
    /\ ThreadsIdle
    /\ RetInit /\ IfIdle /\ PtpIdle /\ HubIdle /\ CtlIdle /\ WlanIdle

\* RJ45Node, life cycle: startup, shutdown and the address calls, on every
\* host NIC.
InitRJ == RJFresh([up : BOOLEAN, addrs : SUBSET HostAddrs])

NextRJ ==
    \/ \E how \in SaveOutcomes, linkok \in BOOLEAN : RJ45Node_startup(how, linkok)
    \/ RJ45Node_shutdown
    \/ \E addr \in EmuAddrs, inject \in BOOLEAN : RJ45Node_addaddr(addr, inject)
    \/ \E addr \in EmuAddrs, inject \in BOOLEAN : RJ45Node_deladdr(addr, inject)

SpecRJ == InitRJ /\ [][NextRJ]_vars

\* RJ45Node, attachment: newnetif and delnetif with startup and shutdown.
InitRJAttach == RJFresh([up : BOOLEAN, addrs : {{}, {H4}}])

NextRJAttach ==
    \/ \E how \in SaveOutcomes, linkok \in BOOLEAN : RJ45Node_startup(how, linkok)
    \/ RJ45Node_shutdown
    \/ \E net \in NetArgs, addrlist \in AddrlistArgs, ifindex \in IfindexArgs :
           RJ45Node_newnetif(net, addrlist, ifindex)
    \/ \E ifindex \in IfindexArgs : RJ45Node_delnetif(ifindex)

SpecRJAttach == InitRJAttach /\ [][NextRJAttach]_vars

\* RJ45Node called from NumThreads threads.
InitRJThreads == RJFresh([up : BOOLEAN, addrs : {{}, {H4}}])

NextRJThreads ==
    \E t \in Threads :
        \/ \E op \in ThreadOps : \E arg \in ThreadArgs(op) : Thread_call(t, op, arg)
        \/ Thread_startup_savestate(t)
        \/ Thread_startup_link(t)
        \/ Thread_startup_up(t)
        \/ Thread_shutdown_check(t)
        \/ Thread_shutdown_down(t)
        \/ Thread_shutdown_clear(t)
        \/ Thread_shutdown_restore(t)
        \/ Thread_newnetif_acquire(t)
        \/ Thread_newnetif_body(t)
        \/ Thread_newnetif_release(t)
        \/ Thread_delnetif_check(t)
        \/ Thread_delnetif_pop(t)

SpecRJThreads == InitRJThreads /\ [][NextRJThreads]_vars

InitHub == HubIdle /\ RetInit /\ IfIdle /\ PtpIdle /\ CtlIdle /\ WlanIdle /\ RJIdle

NextHub ==
    \/ \E n \in BridgeIds, start \in BOOLEAN, ok \in BOOLEAN : HubNode_init(n, start, ok)
    \/ \E n \in BridgeIds, start \in BOOLEAN : SwitchNode_init(n, start)
    \/ \E n \in BridgeIds : LxBrNet_startup(n)
    \/ \E n \in BridgeIds : LxBrNet_shutdown(n)

SpecHub == InitHub /\ [][NextHub]_vars

\* ================================================================ claims
\* ------------------------------------------------------- PtpNet: claims
\* The (if1, if2) pair all_link_data unpacks from a registry of two.
PtpIf1 == ptp_netif[1]
PtpIf2 == ptp_netif[2]
PtpQueried == ret.op = "all_link_data" /\ ret.exc = NoExc

\* C1: a PtpNet never holds more than 2 interfaces; an attach issued while 2
\* interfaces are attached raises ValueError and leaves the registry as it was.
C1_PtpCapacity ==
    [][ /\ Len(ptp_netif') <= 2
        /\ (ret'.op = "attach" /\ Len(ptp_netif) = 2)
              => (ret'.exc = "ValueError" /\ ptp_netif' = ptp_netif) ]_vars
C1_Witness ==
    ret.op = "attach" /\ ret.exc = "ValueError" /\ Len(ptp_netif) = 2

\* C2: all_link_data returns the empty sequence when the number of attached
\* interfaces is not 2, and 1 or 2 descriptors when it is 2.
C2_LinkCount ==
    PtpQueried =>
        IF Len(ptp_netif) # 2 THEN ret.val = <<>> ELSE Len(ret.val) \in {1, 2}
C2_Witness ==
    PtpQueried /\ Len(ptp_netif) = 2 /\ Len(ret.val) = 2

\* The four reported link-quality values of an interface.
Quality4(i) ==
    <<getparam(i, "delay"), getparam(i, "bw"),
      getparam(i, "duplicate"), getparam(i, "jitter")>>

\* C3 as stated: two interfaces with identical {delay, bandwidth, duplicate,
\* jitter} give exactly one descriptor, with unidirectional = 0.
C3_Original ==
    (PtpQueried /\ Len(ptp_netif) = 2 /\ Quality4(PtpIf1) = Quality4(PtpIf2))
        => (Len(ret.val) = 1 /\ ret.val[1].unidirectional = Some(0))
\* C3 amended: two interfaces whose whole parameter sets (getparams: the four
\* reported values and any other parameter set on the interface, such as
\* loss) are identical give exactly one descriptor, with unidirectional = 0.
C3_SymmetricLink ==
    (PtpQueried /\ Len(ptp_netif) = 2 /\ if_params[PtpIf1] = if_params[PtpIf2])
        => (Len(ret.val) = 1 /\ ret.val[1].unidirectional = Some(0))
C3_Witness ==
    /\ PtpQueried /\ Len(ptp_netif) = 2
    /\ if_params[PtpIf1] = if_params[PtpIf2]
    /\ "loss" \in DOMAIN if_params[PtpIf1]
    /\ Len(ret.val) = 1

\* The address an endpoint reports for one family: none when its list has no
\* address of the family, else the last one of the list.
ExpectedIp(addrlist, v4) ==
    LET idx == { k \in DOMAIN addrlist : is_ipv4_address(addrlist[k].ip) = v4 }
        last == CHOOSE k \in idx : \A j \in idx : j <= k
    IN  IF idx = {} THEN None
        ELSE Some(IpAddress(IF v4 THEN "AF_INET" ELSE "AF_INET6", addrlist[last].ip))

C9_HubFloods ==
    \A n \in BridgeIds :
        /\ (br_kind[n] = "hub" /\ br_up[n]) => br_host[n] = Some(ZeroAgeing)
        /\ br_kind[n] = "switch" => br_host[n] # Some(ZeroAgeing)

\* ------------------------------------------------------- CtrlNet: claims
CtlStarted == ret.op = "CtrlNet.startup"
CtlShowOnly(cs) == Len(cs) = 1 /\ cs[1].cmd = <<"brctl", "show">>
\* A bridge name <prefix>.<id>.<suffix>, and one whose prefix is "b".
NamedForId(b, id) == Len(b) = 3 /\ b[2] = id
NamedByCore(b, id) == Len(b) = 3 /\ b[1] = "b" /\ b[2] = id

CallsOf(cs, kind) == { k \in DOMAIN cs : cs[k].cmd[1] = kind }
InvokedFor(cs, i) == { k \in CallsOf(cs, "position_callback") : cs[k].cmd[3] = i }
WlanUpdated == ret.op = "WlanNode.updatemodel"
\* The model bound before the call carries the name the call was given.
NameMatches(model, name) == model # None /\ model[1].name = name
Accepted(cs) == \E k \in CallsOf(cs, "updateconfig") : cs[k].ok
WlanUntouched == <<w_model, w_mobility, w_netif, if_poshook>>

\* C10 as stated: updatemodel changes nothing without a bound model of that
\* name; with a matching name and an accepted update, link parameters are
\* reapplied and every attached interface gets one callback invocation; with
\* a rejected update, no callback is invoked and no link parameter applied.
C10_Original ==
    [][ WlanUpdated' =>
          /\ ~NameMatches(w_model, ret'.val)
                => (calls' = <<>> /\ WlanUntouched' = WlanUntouched)
          /\ (NameMatches(w_model, ret'.val) /\ Accepted(calls'))
                => /\ CallsOf(calls', "setlinkparams") # {}
                   /\ \A i \in Range(w_netif) : Cardinality(InvokedFor(calls', i)) = 1
          /\ (NameMatches(w_model, ret'.val) /\ ~Accepted(calls'))
                => /\ CallsOf(calls', "position_callback") = {}
                   /\ CallsOf(calls', "setlinkparams") = {} ]_vars
\* C10 amended: as stated, except that after an accepted update the callback
\* is invoked only when the bound model declares one, and then once, with the
\* node's position, for every attached interface that has an owning node
\* (an attached interface without a node only has the callback installed).
C10_UpdateModel ==
    [][ WlanUpdated' =>
          /\ ~NameMatches(w_model, ret'.val)
                => (calls' = <<>> /\ WlanUntouched' = WlanUntouched)
          /\ (NameMatches(w_model, ret'.val) /\ Accepted(calls'))
                => /\ CallsOf(calls', "setlinkparams") # {}
                   /\ \A i \in Range(w_netif) :
                        IF w_model[1].callback
                        THEN /\ if_poshook'[i] = Some(w_model[1].inst)
                             /\ IF if_node[i] # None
                                THEN /\ Cardinality(InvokedFor(calls', i)) = 1
                                     /\ \A k \in InvokedFor(calls', i) :
                                          /\ calls'[k].cmd[2] = w_model[1].inst
                                          /\ calls'[k].cmd[4] = position(i)
                                ELSE InvokedFor(calls', i) = {}
                        ELSE InvokedFor(calls', i) = {}
          /\ (NameMatches(w_model, ret'.val) /\ ~Accepted(calls'))
                => /\ CallsOf(calls', "position_callback") = {}
                   /\ CallsOf(calls', "setlinkparams") = {} ]_vars
C10_Witness ==
    /\ WlanUpdated /\ Accepted(calls)
    /\ Len(w_netif) = 2
    /\ \E i \in Range(w_netif) : if_node[i] = None
    /\ Cardinality(CallsOf(calls, "position_callback")) = 1
    /\ CallsOf(calls, "setlinkparams") # {}

\* ------------------------------------------------------ RJ45Node: claims
\* C5: an RJ45Node is in the registry of at most one network; a newnetif
\* call made while a network is attached raises ValueError and leaves the
\* network reference, the interface index, the interface registry and the
\* address list as they were.
C5_SingleNetwork ==
    [][ /\ Cardinality(net_members') <= 1
        /\ (ret'.op = "RJ45Node.newnetif" /\ rj_net # None)
              => /\ ret'.exc = "ValueError"
                 /\ <<rj_net, rj_ifindex, rj_netif, rj_addrlist, net_members>>'
                      = <<rj_net, rj_ifindex, rj_netif, rj_addrlist, net_members>> ]_vars
C5_Witness ==
    /\ ret.op = "RJ45Node.newnetif" /\ ret.exc = "ValueError"
    /\ rj_net # None /\ Cardinality(net_members) = 1
    /\ rj_addrlist # <<>>

\* The addresses of a NIC that are not link-local.
NotLinkLocal(addrs) == { h \in addrs : h.addr[1] # "fe80" }
\* A shutdown() that took the node from up to down and raised nothing.
RJWentDown ==
    /\ ret.op = "RJ45Node.shutdown" /\ ret.exc = NoExc
    /\ calls # <<>>
\* The address commands of restorestate in a call trace, and its link-up.
RestoredAddrs(cs) ==
    { cs[k].cmd[4] : k \in { j \in DOMAIN cs : cs[j].cmd[3] = "add" /\ cs[j].ok } }
BroughtUp(cs) ==
    \E k \in DOMAIN cs : cs[k].cmd = IpLinkSet("up") /\ cs[k].ok

\* C6: after startup() ... shutdown() with every host command succeeding
\* (address calls in between allowed), the NIC has the non-link-local
\* addresses and the up flag it had before startup(); restorestate adds back
\* every address of the snapshot and brings the NIC up iff it was up before.
C6_RoundTrip ==
    (RJWentDown /\ rj_clean) =>
        /\ NotLinkLocal(host_nic.addrs) = NotLinkLocal(rj_pre[1].addrs)
        /\ host_nic.up = rj_pre[1].up
        /\ RestoredAddrs(calls) = { h.addr : h \in NotLinkLocal(rj_pre[1].addrs) }
        /\ BroughtUp(calls) <=> rj_pre[1].up
C6_Witness ==
    /\ RJWentDown /\ rj_clean
    /\ rj_pre[1].up
    /\ rj_pre[1].addrs = {H4, H6, HLL}
    /\ rj_addrlist # <<>>

\* The steps of a call that read, test or write the node's fields: a thread
\* is in them from its first such step until the call returns.
InCall(t) ==
    pc[t] \in {"startup:link", "startup:up", "shutdown:down", "shutdown:clear",
               "shutdown:restore", "newnetif:body", "newnetif:release",
               "delnetif:pop"}
\* C7: newnetif, delnetif, startup and shutdown of one RJ45Node, called from
\* several threads, are serialized by the node's lock: no two threads are
\* inside the read-check-write steps of these calls at once (so two
\* shutdowns never both pass the up check and both restore the snapshot).
C7_Serialized ==
    \A t1, t2 \in Threads : t1 # t2 => ~(InCall(t1) /\ InCall(t2))

\* ------------------------------------------------- WlanNode.setmodel, attach
WlanSetModel == ret.op = "WlanNode.setmodel"
\* The class a setmodel call was given, by the name the call reports.
ClassNamed(name) == CHOOSE c \in ModelClasses : c.name = name
\* The network holds at most one model of each class.
OneModelPerClass ==
    /\ w_model # None => (Len(w_model) = 1 /\ w_model[1].config_type = "WIRELESS")
    /\ w_mobility # None => (Len(w_mobility) = 1 /\ w_mobility[1].config_type = "MOBILITY")
\* The mobility half of C11: the new model is the MobilityModel; nothing is
\* wired, nothing invoked, the WirelessModel stays.
SetMobility(name) ==
    /\ w_mobility' # None /\ w_mobility'[1].name = name
    /\ w_mobility'[1].inst = w_made'
    /\ w_model' = w_model
    /\ if_poshook' = if_poshook
    /\ calls' = <<>>
\* The binding half for a wireless class: the new model replaces the
\* WirelessModel and its link parameters are applied last.
SetWireless(name) ==
    /\ w_model' # None /\ w_model'[1].name = name
    /\ w_model'[1].inst = w_made'
    /\ w_mobility' = w_mobility
    /\ calls' # <<>>
    /\ calls'[Len(calls')].cmd = <<"setlinkparams", w_made'>>
    /\ Cardinality(CallsOf(calls', "setlinkparams")) = 1

\* C11 as stated: a wireless-class model becomes the WirelessModel, its
\* callback is installed on every attached interface and each of them is
\* invoked exactly once, then link parameters are applied; a mobility-class
\* model becomes the MobilityModel with nothing wired; at most one model of
\* each class is held.
C11_Original ==
    [][ WlanSetModel' =>
          /\ OneModelPerClass'
          /\ ClassNamed(ret'.val).config_type = "WIRELESS" =>
                /\ SetWireless(ret'.val)
                /\ \A i \in Range(w_netif) :
                     /\ if_poshook'[i] = Some(w_made')
                     /\ Cardinality(InvokedFor(calls', i)) = 1
          /\ ClassNamed(ret'.val).config_type = "MOBILITY" => SetMobility(ret'.val) ]_vars
\* C11 amended: as stated, except that the callback is installed only when
\* the new wireless model declares one (otherwise every position hook stays
\* as it was and nothing is invoked), and it is invoked, once and with the
\* node's position, only for the attached interfaces that have an owning
\* node.
C11_SetModel ==
    [][ WlanSetModel' =>
          /\ OneModelPerClass'
          /\ ClassNamed(ret'.val).config_type = "WIRELESS" =>
                /\ SetWireless(ret'.val)
                /\ IF ClassNamed(ret'.val).callback
                   THEN \A i \in Range(w_netif) :
                          /\ if_poshook'[i] = Some(w_made')
                          /\ IF if_node[i] # None
                             THEN /\ Cardinality(InvokedFor(calls', i)) = 1
                                  /\ \A k \in InvokedFor(calls', i) :
                                       /\ calls'[k].cmd[2] = w_made'
                                       /\ calls'[k].cmd[4] = position(i)
                             ELSE InvokedFor(calls', i) = {}
                   ELSE /\ if_poshook' = if_poshook
                        /\ CallsOf(calls', "position_callback") = {}
                /\ \A i \in Netifs \ Range(w_netif) : if_poshook'[i] = if_poshook[i]
          /\ ClassNamed(ret'.val).config_type = "MOBILITY" => SetMobility(ret'.val) ]_vars
C11_Witness ==
    /\ WlanSetModel /\ ret.val = "basic_range"
    /\ w_made = 2 /\ w_model[1].inst = 2
    /\ w_mobility # None
    /\ Len(w_netif) = 2
    /\ Cardinality(CallsOf(calls, "position_callback")) = 2

\* ---------------------------------------------------- RJ45Node: life cycle
\* What restoring a snapshot issues: one add per captured address, with its
\* broadcast when one was captured, then link up when the NIC was up.
RestoreOf(old_addrs, old_up) ==
    [k \in 1..Len(old_addrs) |->
        <<"ip", "addr", "add", old_addrs[k][1]>>
        \o (IF old_addrs[k][2] = None THEN <<>> ELSE <<"brd", old_addrs[k][2][1]>>)
        \o <<"dev", LocalName>>]
    \o (IF old_up THEN << <<"ip", "link", "set", LocalName, "up">> >> ELSE <<>>)
TearDown ==
    << <<"ip", "link", "set", LocalName, "down">>,
       <<"ip", "addr", "flush", "dev", LocalName>>,
       <<"tc", "qdisc", "del", "dev", LocalName, "root">> >>
IsPrefixOfCmds(cs, cmds) ==
    /\ Len(cs) <= Len(cmds)
    /\ \A k \in DOMAIN cs : cs[k].cmd = cmds[k]
RJFields == <<rj_up, rj_net, rj_ifindex, rj_netif, rj_addrlist, rj_old_up,
              rj_old_addrs, net_members, host_nic>>

\* C12: the up flag changes only by startup (down to up) and shutdown (up to
\* down).  startup reads the NIC before it issues link up, and is up once
\* that command succeeded.  shutdown from up issues link down, address
\* flush, qdisc removal, clears the up flag and then issues the restore
\* commands of the snapshot.  shutdown while down issues nothing and changes
\* nothing.
C12_Lifecycle ==
    [][ /\ rj_up' # rj_up =>
             \/ ret'.op = "RJ45Node.startup" /\ ~rj_up /\ rj_up'
             \/ ret'.op = "RJ45Node.shutdown" /\ rj_up /\ ~rj_up'
        /\ ret'.op = "RJ45Node.startup" =>
             /\ calls' # <<>> /\ calls'[1].cmd = <<"ip", "addr", "show", "dev", LocalName>>
             /\ \A k \in DOMAIN calls' : calls'[k].cmd[2] = "link" => k = 2
             /\ calls'[1].ok =>
                  /\ rj_old_up' = Some(host_nic.up)
                  /\ { a[1] : a \in Range(rj_old_addrs'[1]) }
                       = { h.addr : h \in NotLinkLocal(host_nic.addrs) }
             /\ AllOk(calls') => (Len(calls') = 2 /\ rj_up' /\ host_nic'.up)
        /\ (ret'.op = "RJ45Node.shutdown" /\ rj_up) =>
             LET cmds == TearDown \o RestoreOf(rj_old_addrs[1], rj_old_up[1])
             IN  /\ IsPrefixOfCmds(calls', cmds)
                 /\ (Len(calls') >= 2 /\ calls'[1].ok /\ calls'[2].ok)
                       => (Len(calls') >= 3 /\ ~rj_up')
                 /\ AllOk(calls') => (Len(calls') = Len(cmds) /\ ret'.exc = NoExc)
        /\ (ret'.op = "RJ45Node.shutdown" /\ ~rj_up) =>
             /\ calls' = <<>> /\ ret'.exc = NoExc
             /\ RJFields' = RJFields ]_vars
C12_Witness ==
    /\ RJWentDown /\ AllOk(calls)
    /\ Len(calls) = 6
    /\ calls[4].cmd = IpAddrAddBrd(H4.addr, H4.brd[1])
    /\ calls[6].cmd = IpLinkSet("up")
    /\ ~rj_up /\ host_nic.up

\* C13: addaddr and deladdr issue their host command exactly when the node
\* is up, and in every outcome (up or down, command succeeding or failing)
\* the in-memory address list gains the added address, or loses the deleted
\* one when it holds it.
C13_ListAlwaysUpdated ==
    [][ /\ ret'.op = "RJ45Node.addaddr" =>
             /\ (calls' # <<>>) <=> rj_up
             /\ Len(rj_addrlist') = Len(rj_addrlist) + 1
             /\ calls' # <<>> =>
                  /\ calls'[1].cmd[3] = "add"
                  /\ rj_addrlist'[Len(rj_addrlist')] = calls'[1].cmd[4]
        /\ ret'.op = "RJ45Node.deladdr" =>
             /\ (calls' # <<>>) <=> rj_up
             /\ (calls' # <<>> /\ calls'[1].cmd[4] \in Range(rj_addrlist)) =>
                  /\ calls'[1].cmd[3] = "del"
                  /\ Len(rj_addrlist') = Len(rj_addrlist) - 1 ]_vars

\* C14: delnetif(ifindex) fails when the index is not in the registry;
\* triggers shutdown when it is the node's current index; fails for any
\* other index; and a failing call leaves the registry and the node's other
\* fields as they were.
C14_DelnetifFrame ==
    [][ ret'.op = "RJ45Node.delnetif" =>
          LET idx == IF ret'.val = None THEN 0 ELSE ret'.val[1]
          IN  /\ idx \notin DOMAIN rj_netif => ret'.exc = "ValueError"
              /\ (idx \in DOMAIN rj_netif /\ rj_ifindex = Some(idx) /\ rj_up) =>
                   /\ calls' # <<>>
                   /\ calls'[1].cmd = <<"ip", "link", "set", LocalName, "down">>
              /\ (idx \in DOMAIN rj_netif /\ rj_ifindex # Some(idx)) =>
                   ret'.exc = "ValueError"
              /\ ret'.exc # NoExc =>
                   <<rj_netif, rj_up, rj_net, rj_ifindex, rj_addrlist,
                     rj_old_up, rj_old_addrs, net_members>>'
                   = <<rj_netif, rj_up, rj_net, rj_ifindex, rj_addrlist,
                       rj_old_up, rj_old_addrs, net_members>> ]_vars

\* C15: with host commands failing at any step, a node that shutdown has
\* taken from up to down (up flag false) sits on a NIC that carries every
\* address of the snapshot and has the snapshot's up state.
C15_NoPartialRestore ==
    (ret.op = "RJ45Node.shutdown" /\ calls # <<>> /\ ~rj_up) =>
        /\ \A k \in DOMAIN rj_old_addrs[1] :
             \E h \in host_nic.addrs : h.addr = rj_old_addrs[1][k][1]
        /\ host_nic.up = rj_old_up[1]

\* ------------------------------------------- CtrlNet: order of the steps
\* The step a command of CtrlNet.startup or CtrlNet.shutdown belongs to.
StepOf(c) ==
    IF c.cmd[1] = "brctl" THEN c.cmd[2]
    ELSE IF c.cmd[1] = "ip" THEN "linkup"
    ELSE IF c.cmd[1] = "addrconfig" THEN "addrconfig"
    ELSE c.cmd[3]
StepsOf(cs) == [k \in DOMAIN cs |-> StepOf(cs[k])]
Has(cs, step) == \E k \in DOMAIN cs : StepOf(cs[k]) = step
Failed(cs, step) == \E k \in DOMAIN cs : StepOf(cs[k]) = step /\ ~cs[k].ok
\* The steps of a call trace appear in the order of the sequence order, each
\* at most once.
InOrder(cs, order) ==
    \A j, k \in DOMAIN cs : j < k =>
        \E a, b \in DOMAIN order :
            a < b /\ order[a] = StepOf(cs[j]) /\ order[b] = StepOf(cs[k])

\* C16: a CtrlNet.startup that finds no stale bridge creates the bridge,
\* then assigns the address if enabled, then runs the script with "startup"
\* if configured, then joins the host interface if configured; when a join
\* command fails, startup still returns normally, with the bridge created,
\* the address assigned and the script run.
C16_StartupOrder ==
    [][ (ret'.op = "CtrlNet.startup" /\ Has(calls', "addbr")) =>
          LET cfg == ctl_cfg[1]
          IN  /\ InOrder(calls', <<"show", "addbr", "addrconfig", "startup",
                                   "addif", "linkup">>)
              /\ StepOf(calls'[2]) = "addbr"
              /\ Has(calls', "addrconfig") <=> cfg.assign_address
              /\ Has(calls', "startup") <=> cfg.updown_script # None
              /\ ~Has(calls', "shutdown")
              /\ Has(calls', "addif") => cfg.serverintf # None
              /\ (cfg.serverintf # None /\ ~Failed(calls', "startup"))
                    => Has(calls', "addif")
              /\ (Failed(calls', "addif") \/ Failed(calls', "linkup")) =>
                    /\ ret'.exc = NoExc
                    /\ ctl_up'
                    /\ <<"b", cfg.objid, SessionId>> \in host_bridges' ]_vars
C16_Witness ==
    /\ ret.op = "CtrlNet.startup" /\ ret.exc = NoExc
    /\ Failed(calls, "addif")
    /\ StepsOf(calls) = <<"show", "addbr", "addrconfig", "startup", "addif">>
    /\ ctl_up

\* C17: CtrlNet.shutdown first removes the host interface from the bridge
\* if one is configured (a failure does not stop it), then runs the script
\* with "shutdown" if configured, then the base bridge shutdown; the base
\* shutdown never comes before the script, nor the script before the
\* removal.
C17_ShutdownOrder ==
    [][ ret'.op = "CtrlNet.shutdown" =>
          LET cfg == ctl_cfg[1]
          IN  /\ InOrder(calls', <<"delif", "shutdown", "delbr">>)
              /\ Has(calls', "delif") <=> cfg.serverintf # None
              /\ Has(calls', "shutdown") <=> cfg.updown_script # None
              /\ Has(calls', "delbr") <=> (ctl_up /\ ~Failed(calls', "shutdown"))
              /\ ~Failed(calls', "shutdown") =>
                    /\ ret'.exc = NoExc
                    /\ ~ctl_up'
                    /\ <<"b", cfg.objid, SessionId>> \notin host_bridges' ]_vars
C17_Witness ==
    /\ ret.op = "CtrlNet.shutdown" /\ ret.exc = NoExc
    /\ Failed(calls, "delif")
    /\ StepsOf(calls) = <<"delif", "shutdown", "delbr">>
    /\ ~ctl_up

Restoring(op) == op \in {"RJ45Node.shutdown", "RJ45Node.delnetif"}
\* C19: a snapshot is restored at most once.  restorestate runs only in a
\* shutdown (called directly or by delnetif) that takes the node from up to
\* down, and issues the restore commands of the snapshot held; a shutdown of
\* a node that is down leaves the NIC alone; and the node goes from down to
\* up only in a startup, which captures anew before it can restore again.
C19_RestoredOnce ==
    [][ /\ (Restoring(ret'.op) /\ Len(calls') >= 3) =>
             /\ rj_up /\ ~rj_up'
             /\ IsPrefixOfCmds(calls', TearDown \o RestoreOf(rj_old_addrs[1], rj_old_up[1]))
             /\ <<rj_old_addrs, rj_old_up>>' = <<rj_old_addrs, rj_old_up>>
        /\ (Restoring(ret'.op) /\ Len(calls') < 3) =>
             \A k \in DOMAIN calls' : calls'[k].cmd[3] # "add" /\ calls'[k].cmd[5] # "up"
        /\ (Restoring(ret'.op) /\ ~rj_up) => (calls' = <<>> /\ host_nic' = host_nic)
        /\ (~rj_up /\ rj_up') =>
             /\ ret'.op = "RJ45Node.startup"
             /\ calls'[1].cmd = <<"ip", "addr", "show", "dev", LocalName>>
             /\ rj_old_up' = Some(calls'[1].ok /\ host_nic.up)
             /\ { a[1] : a \in Range(rj_old_addrs'[1]) }
                  = IF calls'[1].ok
                    THEN { h.addr : h \in NotLinkLocal(host_nic.addrs) } ELSE {} ]_vars
C19_Witness ==
    /\ ret.op = "RJ45Node.delnetif" /\ ret.exc = NoExc
    /\ Len(calls) = 5 /\ AllOk(calls)
    /\ calls[4].cmd = IpAddrAddBrd(H4.addr, H4.brd[1])
    /\ ~rj_up /\ rj_old_addrs # None

\* C20: the snapshot describes the NIC as it was before the node took it: a
\* startup() of a node that is already up leaves the snapshot as it is.
C20_SnapshotKept ==
    [][ (ret'.op = "RJ45Node.startup" /\ rj_up) =>
          <<rj_old_up, rj_old_addrs>>' = <<rj_old_up, rj_old_addrs>> ]_vars

\* ------------------------------------------------------- implicit claims
\* C21: the updown script is run with "shutdown", and the host interface is
\* removed from the bridge, only in a lifecycle whose startup went through:
\* a shutdown of a CtrlNet that is not up (its startup stopped at the stale
\* bridge, or never ran) runs no script and removes no interface.
C21_ShutdownAfterStartup ==
    [][ (ret'.op = "CtrlNet.shutdown" /\ ~ctl_up) =>
          /\ ~Has(calls', "shutdown")
          /\ ~Has(calls', "delif") ]_vars

\* C22: the interface registry of an RJ45Node holds at most one entry, and
\* the entry it holds is the node itself under the recorded interface index.
C22_OneRegistryEntry ==
    /\ Cardinality(DOMAIN rj_netif) <= 1
    /\ \A k \in DOMAIN rj_netif : rj_ifindex = Some(k) /\ rj_netif[k] = "self"

\* C23: after a delnetif of the node's own index that raised nothing, the
\* node is unattached: no network reference, no recorded index, and
\* netif(ifindex) no longer answers with the node.
C23_DetachedAfterDelnetif ==
    (ret.op = "RJ45Node.delnetif" /\ ret.exc = NoExc) =>
        /\ rj_net = None
        /\ rj_ifindex = None
        /\ RJ45Node_netif(ret.val, None, rj_net, rj_ifindex) = None

\* C24: while a wireless model is bound, the position hook of every
\* attached interface is that model's callback (none, for a model that
\* declares none).
C24_HookIsBoundModel ==
    w_model # None =>
        \A i \in Range(w_netif) :
            if_poshook[i] = IF w_model[1].callback THEN Some(w_model[1].inst) ELSE None

====
